---------------------------- MODULE Spec2Model ----------------------------
(***************************************************************************)
(* A model of the two primitives of las-rs found in src/transform.rs and   *)
(* src/utils.rs:                                                           *)
(*   - the fixed-width text codec  (as_las_str, as_las_string_lossy,       *)
(*     from_las_str) over byte buffers;                                    *)
(*   - the coordinate Transform (direct, inverse,                          *)
(*     inverse_with_rounding_mode) over IEEE-754 binary64 values.          *)
(* Strings are modelled as Rust holds them: the sequence of their UTF-8    *)
(* bytes.                                                                  *)
(***************************************************************************)
EXTENDS Integers, Sequences, FiniteSets, TLC

VARIABLES
    buf,        \* the byte buffer (the slice the codec is called on)
    text,       \* the &str given to the last from_las_str, NoCall if none
    before,     \* the contents of buf just before the last from_las_str
    encRes,     \* what the last from_las_str returned, NoCall if none
    strictRes,  \* what as_las_str returned for the present contents of buf
    lossyRes,   \* what as_las_string_lossy returned for the present contents
    transform,  \* the Transform value: [scale, offset]
    n,          \* Some(the i32 given to direct, whose result value is) or None
    value,      \* the f64 under conversion: an input, or the result of direct
    results     \* per entry point, what the inverse returned for value

codecVars == <<buf, text, before, encRes, strictRes, lossyRes>>
transformVars == <<transform, n, value, results>>
vars == <<buf, text, before, encRes, strictRes, lossyRes,
          transform, n, value, results>>

NoCall == [tag |-> "NoCall"]

-----------------------------------------------------------------------------
(* Bounds of the text codec model. *)

\* the longest buffer; texts are up to one byte longer
MaxLen == 4

\* bytes the buffers are drawn from: NUL; DEL, the largest 7-bit ASCII byte;
\* and the two bytes of U+0080, the smallest scalar value that is not ASCII,
\* which are valid UTF-8 only as the pair <<194, 128>>
BufBytes == {0, 127, 194, 128}

\* bytes the texts are drawn from: DEL and the pair of U+0080
TextBytes == {127, 194, 128}

-----------------------------------------------------------------------------
(* Option<T>: None is the empty sequence, Some(x) the one-element one.      *)

None == << >>
Some(x) == <<x>>

\* Iterator::position(|c| *c == 0): the 0-based index of the first zero byte
RECURSIVE positionFrom(_, _)
positionFrom(self, i) ==
    IF i > Len(self) THEN None
    ELSE IF self[i] = 0 THEN Some(i - 1)
    ELSE positionFrom(self, i + 1)

position(self) == positionFrom(self, 1)

\* self[from..]  and  self[..to]  with Rust's 0-based, half-open ranges
SliceFrom(self, from) == SubSeq(self, from + 1, Len(self))
SliceTo(self, to) == SubSeq(self, 1, to)

\* Iterator::any(|c| *c != 0)
AnyNonZero(bytes) == \E i \in 1..Len(bytes) : bytes[i] # 0

\* str::is_ascii
is_ascii(s) == \A i \in 1..Len(s) : s[i] < 128

-----------------------------------------------------------------------------
(* UTF-8, as core::str validates it (the Unicode "well-formed byte          *)
(* sequences" table) and as String::from_utf8_lossy repairs it.             *)

\* core::str::utf8_char_width
utf8_char_width(b) ==
    IF b < 128 THEN 1
    ELSE IF b >= 194 /\ b <= 223 THEN 2
    ELSE IF b >= 224 /\ b <= 239 THEN 3
    ELSE IF b >= 240 /\ b <= 244 THEN 4
    ELSE 0

\* safe_get: the byte at 1-based index i, 0 past the end
safe_get(bytes, i) == IF i <= Len(bytes) THEN bytes[i] ELSE 0

IsCont(b) == b >= 128 /\ b <= 191

\* the range the second byte of a 3- or 4-byte sequence must lie in
SecondOk(first, second) ==
    CASE first = 224 -> second >= 160 /\ second <= 191
      [] first >= 225 /\ first <= 236 -> IsCont(second)
      [] first = 237 -> second >= 128 /\ second <= 159
      [] first >= 238 /\ first <= 239 -> IsCont(second)
      [] first = 240 -> second >= 144 /\ second <= 191
      [] first >= 241 /\ first <= 243 -> IsCont(second)
      [] first = 244 -> second >= 128 /\ second <= 143
      [] OTHER -> FALSE

\* One step of the decoder at 1-based index i: whether a well-formed scalar
\* value starts there, and the index after the bytes the step consumed (for
\* an ill-formed sequence: after its maximal ill-formed prefix).
Utf8Step(bytes, i) ==
    LET b == bytes[i]
        w == utf8_char_width(b)
    IN  CASE w = 1 -> [ok |-> TRUE, next |-> i + 1]
          [] w = 2 ->
               IF IsCont(safe_get(bytes, i + 1))
               THEN [ok |-> TRUE, next |-> i + 2]
               ELSE [ok |-> FALSE, next |-> i + 1]
          [] w = 3 ->
               IF ~SecondOk(b, safe_get(bytes, i + 1))
               THEN [ok |-> FALSE, next |-> i + 1]
               ELSE IF ~IsCont(safe_get(bytes, i + 2))
               THEN [ok |-> FALSE, next |-> i + 2]
               ELSE [ok |-> TRUE, next |-> i + 3]
          [] w = 4 ->
               IF ~SecondOk(b, safe_get(bytes, i + 1))
               THEN [ok |-> FALSE, next |-> i + 1]
               ELSE IF ~IsCont(safe_get(bytes, i + 2))
               THEN [ok |-> FALSE, next |-> i + 2]
               ELSE IF ~IsCont(safe_get(bytes, i + 3))
               THEN [ok |-> FALSE, next |-> i + 3]
               ELSE [ok |-> TRUE, next |-> i + 4]
          [] OTHER -> [ok |-> FALSE, next |-> i + 1]

RECURSIVE Utf8ValidFrom(_, _)
Utf8ValidFrom(bytes, i) ==
    IF i > Len(bytes) THEN TRUE
    ELSE LET st == Utf8Step(bytes, i)
         IN  st.ok /\ Utf8ValidFrom(bytes, st.next)

\* str::from_utf8(bytes): Ok(the same bytes as a str) or Err(Utf8Error)
from_utf8(bytes) ==
    IF Utf8ValidFrom(bytes, 1)
    THEN [tag |-> "Ok", str |-> bytes]
    ELSE [tag |-> "Utf8Error"]

\* U+FFFD REPLACEMENT CHARACTER in UTF-8
REPLACEMENT == <<239, 191, 189>>

RECURSIVE LossyFrom(_, _)
LossyFrom(bytes, i) ==
    IF i > Len(bytes) THEN << >>
    ELSE LET st == Utf8Step(bytes, i)
         IN  (IF st.ok THEN SubSeq(bytes, i, st.next - 1) ELSE REPLACEMENT)
               \o LossyFrom(bytes, st.next)

\* String::from_utf8_lossy(bytes).to_string()
from_utf8_lossy(bytes) == LossyFrom(bytes, 1)

-----------------------------------------------------------------------------
(* The text codec, src/utils.rs.                                            *)

as_las_str_no_ascii_check(self) ==
    LET p == position(self)
        s == IF p # None
             THEN IF AnyNonZero(SliceFrom(self, p[1]))
                  THEN [tag |-> "NotZeroFilled", bytes |-> self]
                  ELSE from_utf8(SliceTo(self, p[1]))
             ELSE from_utf8(self)
    IN  s

as_las_str_requires_nul(self) ==
    LET p == position(self)
        s == IF p # None
             THEN IF AnyNonZero(SliceFrom(self, p[1]))
                  THEN [tag |-> "NotZeroFilled", bytes |-> self]
                  ELSE from_utf8(SliceTo(self, p[1]))
             ELSE [tag |-> "NotZeroFilled", bytes |-> self]
    IN  IF s.tag # "Ok" THEN s
        ELSE IF ~is_ascii(s.str) THEN [tag |-> "NotAscii", str |-> s.str]
        ELSE [tag |-> "Ok", str |-> s.str]

as_las_str_no_fill_check(self) ==
    LET p == position(self)
        s == IF p # None THEN from_utf8(SliceTo(self, p[1])) ELSE from_utf8(self)
    IN  IF s.tag # "Ok" THEN s
        ELSE IF ~is_ascii(s.str) THEN [tag |-> "NotAscii", str |-> s.str]
        ELSE [tag |-> "Ok", str |-> s.str]

\* <&[u8] as AsLasStr>::as_las_str.  The value of the `let s = ...`
\* expression is either an early return (NotZeroFilled, or the Utf8Error
\* the ? operator propagates) or the candidate text.
as_las_str(self) ==
    LET p == position(self)
        s == IF p # None
             THEN IF AnyNonZero(SliceFrom(self, p[1]))
                  THEN [tag |-> "NotZeroFilled", bytes |-> self]
                  ELSE from_utf8(SliceTo(self, p[1]))
             ELSE from_utf8(self)
    IN  IF s.tag # "Ok" THEN s
        ELSE IF ~is_ascii(s.str) THEN [tag |-> "NotAscii", str |-> s.str]
        ELSE [tag |-> "Ok", str |-> s.str]

as_las_string_lossy_whole_buffer(self) ==
    LET r == as_las_str(self)
    IN  IF r.tag = "Ok" THEN r.str
        ELSE from_utf8_lossy(self)

\* <&[u8] as AsLasStr>::as_las_string_lossy
as_las_string_lossy(self) ==
    LET r == as_las_str(self)
    IN  IF r.tag = "Ok" THEN r.str
        ELSE LET p == position(self)
                 len == IF p # None THEN p[1] ELSE Len(self)
             IN  from_utf8_lossy(SliceTo(self, len))

\* for (a, b) in self.iter_mut().zip(s.bytes()) { *a = b; }
ZipCopy(self, s) ==
    [i \in 1..Len(self) |-> IF i <= Len(s) THEN s[i] ELSE self[i]]

from_las_str_needs_terminator(self, s) ==
    IF Len(self) <= Len(s)
    THEN [buf |-> self,
          res |-> [tag |-> "StringTooLong", string |-> s, len |-> Len(self)]]
    ELSE [buf |-> ZipCopy(self, s), res |-> [tag |-> "Ok"]]

from_las_str_zero_pads(self, s) ==
    IF Len(self) < Len(s)
    THEN [buf |-> self,
          res |-> [tag |-> "StringTooLong", string |-> s, len |-> Len(self)]]
    ELSE [buf |-> [i \in 1..Len(self) |-> IF i <= Len(s) THEN s[i] ELSE 0],
          res |-> [tag |-> "Ok"]]

from_las_str_no_length_check(self, s) ==
    [buf |-> ZipCopy(self, s), res |-> [tag |-> "Ok"]]

\* <&mut [u8] as FromLasStr>::from_las_str: the buffer afterwards and the
\* value returned
from_las_str(self, s) ==
    IF Len(self) < Len(s)
    THEN [buf |-> self,
          res |-> [tag |-> "StringTooLong", string |-> s, len |-> Len(self)]]
    ELSE [buf |-> ZipCopy(self, s), res |-> [tag |-> "Ok"]]

-----------------------------------------------------------------------------
(* The codec's state machine: a caller owning one buffer.                   *)

SeqsUpTo(S, k) == UNION {[1..m -> S] : m \in 0..k}

\* the buffers a caller may hand in
Buffers == SeqsUpTo(BufBytes, MaxLen)

\* the &str values a caller may hand in: a &str is always valid UTF-8
Texts == {t \in SeqsUpTo(TextBytes, MaxLen + 1) : Utf8ValidFrom(t, 1)}

\* the transform is not touched by the codec
IdleTransform ==
    /\ transform = NoCall
    /\ n = None
    /\ value = NoCall
    /\ results = NoCall

Init ==
    /\ buf \in Buffers
    /\ text = NoCall
    /\ before = NoCall
    /\ encRes = NoCall
    /\ strictRes = NoCall
    /\ lossyRes = NoCall
    /\ IdleTransform

\* buf.as_las_str()
AsLasStr ==
    /\ strictRes' = as_las_str(buf)
    /\ UNCHANGED <<buf, text, before, encRes, lossyRes>>
    /\ UNCHANGED transformVars

\* buf.as_las_string_lossy()
AsLasStringLossy ==
    /\ lossyRes' = [tag |-> "String", str |-> as_las_string_lossy(buf)]
    /\ UNCHANGED <<buf, text, before, encRes, strictRes>>
    /\ UNCHANGED transformVars

\* buf.from_las_str(s)
FromLasStr ==
    \E s \in Texts :
        LET r == from_las_str(buf, s)
        IN  /\ buf' = r.buf
            /\ text' = s
            /\ before' = buf
            /\ encRes' = r.res
            /\ strictRes' = NoCall
            /\ lossyRes' = NoCall
            /\ UNCHANGED transformVars

Next == AsLasStr \/ AsLasStringLossy \/ FromLasStr

Spec == Init /\ [][Next]_vars

-----------------------------------------------------------------------------
(* The vocabulary of the codec's properties, stated on the buffer itself.   *)

\* the 1-based index of the first zero byte of b, 0 when b holds none
FirstZero(b) ==
    IF \E i \in 1..Len(b) : b[i] = 0
    THEN CHOOSE i \in 1..Len(b) : b[i] = 0 /\ \A j \in 1..(i - 1) : b[j] # 0
    ELSE 0

\* the bytes before the first zero byte, or all of b
Candidate(b) == IF FirstZero(b) = 0 THEN b ELSE SubSeq(b, 1, FirstZero(b) - 1)

\* a non-zero byte follows the first zero byte
NonZeroAfterFirstZero(b) ==
    /\ FirstZero(b) # 0
    /\ \E i \in (FirstZero(b) + 1)..Len(b) : b[i] # 0

HasNonAscii(s) == \E i \in 1..Len(s) : s[i] >= 128
AllAscii(s) == \A i \in 1..Len(s) : s[i] <= 127
AllZero(b) == \A i \in 1..Len(b) : b[i] = 0
NoZero(s) == \A i \in 1..Len(s) : s[i] # 0

StrictCalled == strictRes # NoCall
LossyCalled == lossyRes # NoCall
EncodeCalled == encRes # NoCall

\* the buffers C1 is about
C1Case ==
    /\ StrictCalled
    /\ HasNonAscii(Candidate(buf))
    /\ ~NonZeroAfterFirstZero(buf)

\* C1 as claimed: a buffer whose candidate text holds a byte >= 0x80 and that
\* has no non-zero byte after its first zero byte always makes as_las_str
\* fail with NotAscii carrying the candidate text.
C1_AlwaysNotAscii ==
    C1Case => strictRes = [tag |-> "NotAscii", str |-> Candidate(buf)]

\* C1 as amended: on such a buffer as_las_str never succeeds; it fails with
\* NotAscii carrying the candidate text when the candidate text is
\* well-formed UTF-8, and with the Utf8Error of str::from_utf8 when it is not.
C1_NotAsciiOrUtf8Error ==
    C1Case =>
        IF Utf8ValidFrom(Candidate(buf), 1)
        THEN strictRes = [tag |-> "NotAscii", str |-> Candidate(buf)]
        ELSE strictRes = [tag |-> "Utf8Error"]

\* a zero-terminated buffer whose candidate text is U+0080 was decoded
C1_Witness ==
    /\ C1Case
    /\ FirstZero(buf) > 1
    /\ strictRes.tag = "NotAscii"

\* C2: with a zero byte in the buffer, as_las_str fails with NotZeroFilled
\* carrying the whole buffer exactly when a non-zero byte follows the first
\* zero byte, whatever the bytes before it; a zero-filled buffer with an
\* ASCII prefix decodes to that prefix, and an all-ASCII buffer without a
\* zero byte decodes to the whole buffer.
C2_ZeroFill ==
    StrictCalled =>
        /\ (strictRes = [tag |-> "NotZeroFilled", bytes |-> buf])
              <=> NonZeroAfterFirstZero(buf)
        /\ strictRes.tag = "NotZeroFilled" => strictRes.bytes = buf
        /\ (~NonZeroAfterFirstZero(buf) /\ AllAscii(Candidate(buf)))
              => strictRes = [tag |-> "Ok", str |-> Candidate(buf)]

\* the zero-fill check came before the ASCII check: the bytes before the
\* first zero byte are not ASCII, and the error is NotZeroFilled
C2_Witness ==
    /\ StrictCalled
    /\ NonZeroAfterFirstZero(buf)
    /\ HasNonAscii(Candidate(buf))
    /\ strictRes.tag = "NotZeroFilled"

\* C3: from_las_str fails, with StringTooLong carrying the text and the
\* buffer's length, exactly when the text is longer than the buffer, and a
\* failed call leaves the buffer as it was.
C3_TooLong ==
    EncodeCalled =>
        /\ (encRes = [tag |-> "StringTooLong", string |-> text,
                      len |-> Len(before)])
              <=> Len(text) > Len(before)
        /\ encRes.tag # "StringTooLong" => encRes = [tag |-> "Ok"]
        /\ encRes.tag # "Ok" => buf = before

\* a text one byte longer than a buffer with contents was refused
C3_Witness ==
    /\ EncodeCalled
    /\ Len(text) = Len(before) + 1
    /\ ~AllZero(before)
    /\ encRes.tag = "StringTooLong"

\* C4: a successful from_las_str leaves the text's bytes, in order, in the
\* leading positions of the buffer and every later byte, and the length, as
\* they were.
C4_PrefixCopied ==
    (EncodeCalled /\ encRes.tag = "Ok") =>
        /\ Len(buf) = Len(before)
        /\ \A i \in 1..Len(text) : buf[i] = text[i]
        /\ \A i \in (Len(text) + 1)..Len(buf) : buf[i] = before[i]

\* a text was copied over part of a buffer whose tail was not zero
C4_Witness ==
    /\ EncodeCalled
    /\ encRes.tag = "Ok"
    /\ Len(text) > 0
    /\ buf # before
    /\ \E i \in (Len(text) + 1)..Len(buf) : before[i] # 0

\* the calls C5 is about: a text of non-zero ASCII bytes written into an
\* all-zero buffer at least as long
C5Case ==
    /\ EncodeCalled
    /\ NoZero(text)
    /\ AllAscii(text)
    /\ AllZero(before)
    /\ Len(before) >= Len(text)

\* C5: such a from_las_str succeeds, and as_las_str on the buffer it leaves
\* returns the text.
C5_RoundTrip ==
    C5Case =>
        /\ encRes = [tag |-> "Ok"]
        /\ StrictCalled => strictRes = [tag |-> "Ok", str |-> text]

\* the text filled the buffer, leaving no zero byte, and was read back
C5_Witness ==
    /\ C5Case
    /\ Len(text) = Len(before)
    /\ Len(text) > 1
    /\ strictRes = [tag |-> "Ok", str |-> text]

\* C6: as_las_string_lossy always returns a string; it is the string
\* as_las_str returns when that succeeds, and otherwise the lossy conversion
\* of the bytes before the first zero byte, so those bytes themselves when
\* they are ASCII.
C6_Lossy ==
    LossyCalled =>
        /\ lossyRes.tag = "String"
        /\ Utf8ValidFrom(lossyRes.str, 1)
        /\ AllAscii(Candidate(buf)) => lossyRes.str = Candidate(buf)
        /\ StrictCalled =>
              IF strictRes.tag = "Ok"
              THEN lossyRes.str = strictRes.str
              ELSE lossyRes.str = from_utf8_lossy(Candidate(buf))

\* a buffer that is not zero-filled was decoded to its ASCII prefix
C6_Witness ==
    /\ LossyCalled
    /\ StrictCalled
    /\ strictRes.tag = "NotZeroFilled"
    /\ Len(Candidate(buf)) > 1
    /\ lossyRes.str = Candidate(buf)

-----------------------------------------------------------------------------
(* Natural numbers of any size.  TLC's integers are 32 bits wide and an f64 *)
(* significand is 53, so a natural is held as its limbs in base 2^15, least *)
(* significant first, with no zero limb at the top; zero is << >>.          *)

\* one bit less than 16, so that the product of two limbs stays below 2^31
LimbBits == 16 - 1
Base == 2^LimbBits

SetMax(S) == CHOOSE x \in S : \A y \in S : y <= x
SetMin(S) == CHOOSE x \in S : \A y \in S : x <= y
IntMax(a, b) == IF a >= b THEN a ELSE b
IntMin(a, b) == IF a <= b THEN a ELSE b

NZero == << >>
NOne == <<1>>

NTrim(a) ==
    LET nz == {i \in 1..Len(a) : a[i] # 0}
    IN  IF nz = {} THEN NZero ELSE SubSeq(a, 1, SetMax(nz))

NLimb(a, i) == IF i <= Len(a) THEN a[i] ELSE 0

\* a natural below 2^31 from and to an integer of TLC
NFromInt(k) == NTrim(<<k % Base, (k \div Base) % Base, k \div (Base * Base)>>)
NToInt(a) == NLimb(a, 1) + Base * NLimb(a, 2) + Base * Base * NLimb(a, 3)

RECURSIVE NAddFrom(_, _, _, _)
NAddFrom(a, b, i, c) ==
    IF i > Len(a) /\ i > Len(b) THEN (IF c = 0 THEN << >> ELSE <<c>>)
    ELSE LET t == NLimb(a, i) + NLimb(b, i) + c
         IN  <<t % Base>> \o NAddFrom(a, b, i + 1, t \div Base)

NAdd(a, b) == NAddFrom(a, b, 1, 0)

RECURSIVE NSubFrom(_, _, _, _)
NSubFrom(a, b, i, borrow) ==
    IF i > Len(a) THEN << >>
    ELSE LET t == a[i] - NLimb(b, i) - borrow
         IN  <<t % Base>> \o NSubFrom(a, b, i + 1, IF t < 0 THEN 1 ELSE 0)

\* a - b for a >= b
NSub(a, b) == NTrim(NSubFrom(a, b, 1, 0))

\* -1, 0, 1 as a < b, a = b, a > b
NCmp(a, b) ==
    IF Len(a) # Len(b) THEN (IF Len(a) < Len(b) THEN -1 ELSE 1)
    ELSE LET d == {i \in 1..Len(a) : a[i] # b[i]}
         IN  IF d = {} THEN 0
             ELSE IF a[SetMax(d)] < b[SetMax(d)] THEN -1 ELSE 1

RECURSIVE NMulSmallFrom(_, _, _, _)
NMulSmallFrom(a, d, i, c) ==
    IF i > Len(a) THEN (IF c = 0 THEN << >> ELSE <<c>>)
    ELSE LET t == a[i] * d + c
         IN  <<t % Base>> \o NMulSmallFrom(a, d, i + 1, t \div Base)

\* a * d for one limb d
NMulSmall(a, d) == IF d = 0 THEN NZero ELSE NMulSmallFrom(a, d, 1, 0)

\* a * Base^k
NShiftLimbs(a, k) == IF a = NZero THEN NZero ELSE [i \in 1..k |-> 0] \o a

RECURSIVE NMulFrom(_, _, _)
NMulFrom(a, b, j) ==
    IF j > Len(b) THEN NZero
    ELSE NAdd(NShiftLimbs(NMulSmall(a, b[j]), j - 1), NMulFrom(a, b, j + 1))

NMul(a, b) == NMulFrom(a, b, 1)

Reverse(a) == [i \in 1..Len(a) |-> a[Len(a) + 1 - i]]

\* long division from the top limb down; the quotient's limbs come out most
\* significant first, followed by the remainder
RECURSIVE NDivSmallFrom(_, _, _, _)
NDivSmallFrom(a, d, i, r) ==
    IF i = 0 THEN <<r>>
    ELSE LET cur == r * Base + a[i]
         IN  <<cur \div d>> \o NDivSmallFrom(a, d, i - 1, cur % d)

\* quotient and remainder of a by one non-zero limb d
NDivSmall(a, d) ==
    LET x == NDivSmallFrom(a, d, Len(a), 0)
    IN  [q |-> NTrim(Reverse(SubSeq(x, 1, Len(a)))), r |-> x[Len(x)]]

\* a * 2^k  and  a \div 2^k
NShl(a, k) == NShiftLimbs(NMulSmall(a, 2^(k % LimbBits)), k \div LimbBits)
NShr(a, k) ==
    IF k \div LimbBits >= Len(a) THEN NZero
    ELSE NDivSmall(SubSeq(a, (k \div LimbBits) + 1, Len(a)), 2^(k % LimbBits)).q

\* the number of bits of a limb, and of a natural
LimbLen(d) == CHOOSE k \in 0..LimbBits : d < 2^k /\ (k = 0 \/ d >= 2^(k - 1))
NBitLen(a) ==
    IF a = NZero THEN 0 ELSE LimbBits * (Len(a) - 1) + LimbLen(a[Len(a)])

\* the number of zero bits at the low end of a non-zero limb, and natural
LimbTz(d) == SetMax({k \in 0..(LimbBits - 1) : d % (2^k) = 0})
NTz(a) ==
    LET i == SetMin({j \in 1..Len(a) : a[j] # 0})
    IN  LimbBits * (i - 1) + LimbTz(a[i])

NIsOdd(a) == a # NZero /\ a[1] % 2 = 1

\* One step of long division by dn, whose top limb has its top bit set:
\* the quotient limb and remainder of rn < dn * Base.  The quotient limb is
\* estimated from the top limbs and is at most 2 too large (Knuth, 4.3.1 D).
NDivStep(rn, dn) ==
    LET m == Len(dn)
        top == NLimb(rn, m + 1) * Base + NLimb(rn, m)
        qhat == IntMin(Base - 1, top \div dn[m])
        fits(d) == d >= 0 /\ NCmp(NMulSmall(dn, d), rn) <= 0
        q == IF fits(qhat) THEN qhat
             ELSE IF fits(qhat - 1) THEN qhat - 1
             ELSE qhat - 2
    IN  [q |-> q, r |-> NSub(rn, NMulSmall(dn, q))]

\* long division from the top limb down; the quotient's limbs come out most
\* significant first, followed by the remainder
RECURSIVE NDivFrom(_, _, _, _)
NDivFrom(a, dn, i, r) ==
    IF i = 0 THEN <<r>>
    ELSE LET rn == IF r = NZero /\ a[i] = 0 THEN NZero ELSE <<a[i]>> \o r
             st == NDivStep(rn, dn)
         IN  <<st.q>> \o NDivFrom(a, dn, i - 1, st.r)

\* quotient and remainder of a by d # 0
NDivMod(a, d) ==
    LET sh == LimbBits - LimbLen(d[Len(d)])
        an == NShl(a, sh)
        dn == NShl(d, sh)
        x == NDivFrom(an, dn, Len(an), NZero)
    IN  [q |-> NTrim(Reverse(SubSeq(x, 1, Len(an)))), r |-> NShr(x[Len(x)], sh)]

-----------------------------------------------------------------------------
(* f64: IEEE-754 binary64.  A value is NaN, an infinity with its sign, or   *)
(* a finite value (-1)^s * m * 2^e held with m odd (zero: m = 0, e = 0,     *)
(* with its sign), so that equal values are equal records.  A finite value  *)
(* is an f64 when m has at most 53 bits, e >= -1074 and m * 2^e < 2^1024.   *)

\* f64::MANTISSA_DIGITS; the exponent of the least subnormal; the exponent
\* of the first power of two that overflows (f64::MAX_EXP)
Precision == 53
MinExp == -1074
MaxExp == 1024

NaN == [k |-> "nan"]
Inf(s) == [k |-> "inf", s |-> s]
Fin(s, m, e) == [k |-> "fin", s |-> s, m |-> m, e |-> e]
Zero(s) == Fin(s, NZero, 0)

IsNaN(a) == a.k = "nan"
IsInf(a) == a.k = "inf"
IsFin(a) == a.k = "fin"
IsZero(a) == a.k = "fin" /\ a.m = NZero

\* the unique record of the finite value (-1)^s * m * 2^e
Canon(s, m, e) ==
    IF m = NZero THEN Zero(s)
    ELSE Fin(s, NShr(m, NTz(m)), e + NTz(m))

\* Exact arithmetic on finite values.
DNeg(a) == Fin(1 - a.s, a.m, a.e)

DAdd(a, b) ==
    LET e == IntMin(a.e, b.e)
        ma == NShl(a.m, a.e - e)
        mb == NShl(b.m, b.e - e)
        c == NCmp(ma, mb)
    IN  IF a.m = NZero THEN (IF b.m = NZero THEN Zero(0) ELSE b)
        ELSE IF b.m = NZero THEN a
        ELSE IF a.s = b.s THEN Canon(a.s, NAdd(ma, mb), e)
        ELSE IF c = 0 THEN Zero(0)
        ELSE IF c > 0 THEN Canon(a.s, NSub(ma, mb), e)
        ELSE Canon(b.s, NSub(mb, ma), e)

DSub(a, b) == DAdd(a, DNeg(b))

DMul(a, b) == Canon((a.s + b.s) % 2, NMul(a.m, b.m), a.e + b.e)

\* the sign of a: -1, 0, 1;  and the exponent of the power of two just
\* above |a| for a # 0
DSign(a) == IF a.m = NZero THEN 0 ELSE IF a.s = 1 THEN -1 ELSE 1
DTop(a) == a.e + NBitLen(a.m)

\* -1, 0, 1 as a < b, a = b, a > b: by the signs, then by the orders of
\* magnitude, and only then by the difference
DCmp(a, b) ==
    IF DSign(a) # DSign(b) THEN (IF DSign(a) < DSign(b) THEN -1 ELSE 1)
    ELSE IF DSign(a) = 0 THEN 0
    ELSE IF DTop(a) # DTop(b)
    THEN (IF DTop(a) < DTop(b) THEN 0 - DSign(a) ELSE DSign(a))
    ELSE DSign(DSub(a, b))

\* whether the finite value a is an f64
Representable(a) ==
    \/ a.m = NZero
    \/ /\ NBitLen(a.m) <= Precision
       /\ a.e >= MinExp
       /\ a.e + NBitLen(a.m) <= MaxExp

\* The f64 nearest to (-1)^s * m * 2^e, ties to the even significand
\* (roundTiesToEven, the rounding of every f64 operation): q is the exponent
\* of the last place the result can hold.
RoundToF64(s, m, e) ==
    IF m = NZero THEN Zero(s)
    ELSE LET q == IntMax(e + NBitLen(m) - Precision, MinExp)
         IN  IF q <= e
             THEN IF e + NBitLen(m) > MaxExp THEN Inf(s) ELSE Canon(s, m, e)
             ELSE LET t == NShr(m, q - e)
                      rem == NSub(m, NShl(t, q - e))
                      c == NCmp(rem, NShl(NOne, q - e - 1))
                      r == IF c > 0 \/ (c = 0 /\ NIsOdd(t))
                           THEN NAdd(t, NOne) ELSE t
                  IN  IF q + NBitLen(r) > MaxExp THEN Inf(s) ELSE Canon(s, r, q)

\* -a
f64_neg(a) ==
    IF IsNaN(a) THEN NaN
    ELSE IF IsInf(a) THEN Inf(1 - a.s)
    ELSE DNeg(a)

\* a + b
f64_add(a, b) ==
    IF IsNaN(a) \/ IsNaN(b) THEN NaN
    ELSE IF IsInf(a) THEN (IF IsInf(b) /\ b.s # a.s THEN NaN ELSE a)
    ELSE IF IsInf(b) THEN b
    ELSE IF IsZero(a) /\ IsZero(b) THEN Zero(IF a.s = b.s THEN a.s ELSE 0)
    ELSE LET d == DAdd(a, b) IN RoundToF64(d.s, d.m, d.e)

\* a - b
f64_sub(a, b) == f64_add(a, f64_neg(b))

\* a * b
f64_mul(a, b) ==
    IF IsNaN(a) \/ IsNaN(b) THEN NaN
    ELSE IF IsInf(a) \/ IsInf(b)
    THEN (IF IsZero(a) \/ IsZero(b) THEN NaN ELSE Inf((a.s + b.s) % 2))
    ELSE RoundToF64((a.s + b.s) % 2, NMul(a.m, b.m), a.e + b.e)

\* a / b.  The quotient of the significands is taken to at least
\* Precision + 2 bits, and a last bit records a non-zero remainder.
f64_div(a, b) ==
    IF IsNaN(a) \/ IsNaN(b) THEN NaN
    ELSE IF IsInf(a) THEN (IF IsInf(b) THEN NaN ELSE Inf((a.s + b.s) % 2))
    ELSE IF IsInf(b) THEN Zero((a.s + b.s) % 2)
    ELSE IF IsZero(b) THEN (IF IsZero(a) THEN NaN ELSE Inf((a.s + b.s) % 2))
    ELSE IF IsZero(a) THEN Zero((a.s + b.s) % 2)
    ELSE LET k == Precision + 2 + NBitLen(b.m)
             d == NDivMod(NShl(a.m, k), b.m)
             sticky == IF d.r = NZero THEN NZero ELSE NOne
         IN  RoundToF64((a.s + b.s) % 2,
                        NAdd(NShl(d.q, 1), sticky),
                        a.e - b.e - k - 1)

\* a < b  and  a > b: false when either is NaN
f64_lt(a, b) ==
    IF IsNaN(a) \/ IsNaN(b) THEN FALSE
    ELSE IF IsInf(a) THEN a.s = 1 /\ ~(IsInf(b) /\ b.s = 1)
    ELSE IF IsInf(b) THEN b.s = 0
    ELSE DCmp(a, b) < 0

f64_gt(a, b) == f64_lt(b, a)

\* the whole part of |a| and whether a fraction is left, for finite a
\* (asked only of values with a fraction, or below 2^32)
WholePart(a) ==
    IF a.e >= 0 THEN [ip |-> NShl(a.m, a.e), frac |-> NZero, half |-> NZero]
    ELSE LET ip == NShr(a.m, 0 - a.e)
         IN  [ip |-> ip,
              frac |-> NSub(a.m, NShl(ip, 0 - a.e)),
              half |-> NShl(NOne, 0 - a.e - 1)]

\* a finite value with no fraction
IsWhole(a) == a.e >= 0

\* f64::floor, f64::ceil
f64_floor(a) ==
    IF ~IsFin(a) \/ IsWhole(a) THEN a
    ELSE LET w == WholePart(a)
         IN  IF a.s = 1 /\ w.frac # NZero
             THEN Canon(1, NAdd(w.ip, NOne), 0)
             ELSE Canon(a.s, w.ip, 0)

f64_ceil(a) ==
    IF ~IsFin(a) \/ IsWhole(a) THEN a
    ELSE LET w == WholePart(a)
         IN  IF a.s = 0 /\ w.frac # NZero
             THEN Canon(0, NAdd(w.ip, NOne), 0)
             ELSE Canon(a.s, w.ip, 0)

\* f64::round: to the nearest integer, half-way cases away from zero
f64_round(a) ==
    IF ~IsFin(a) \/ IsWhole(a) THEN a
    ELSE LET w == WholePart(a)
         IN  IF w.frac # NZero /\ NCmp(w.frac, w.half) >= 0
             THEN Canon(a.s, NAdd(w.ip, NOne), 0)
             ELSE Canon(a.s, w.ip, 0)

\* f64::from(i32): exact
I32Max == 2147483647
I32Min == -I32Max - 1

f64_from_i32(i) ==
    IF i >= 0 THEN Canon(0, NFromInt(i), 0)
    ELSE Canon(1, NAdd(NFromInt(-(i + 1)), NOne), 0)

\* `a as i32`: NaN is 0, out of range saturates, else towards zero
as_i32(a) ==
    IF IsNaN(a) THEN 0
    ELSE IF IsInf(a) THEN (IF a.s = 1 THEN I32Min ELSE I32Max)
    ELSE IF DTop(a) > 31 THEN (IF a.s = 1 THEN I32Min ELSE I32Max)
    ELSE LET ip == WholePart(a).ip
         IN  IF ip = NZero THEN 0
             ELSE IF a.s = 1 THEN -NToInt(NSub(ip, NOne)) - 1
             ELSE NToInt(ip)

-----------------------------------------------------------------------------
(* The coordinate transform, src/transform.rs.                              *)

RoundingMode == {"Round", "Ceil", "Floor"}

\* Transform::direct
direct(self, i) == f64_add(f64_mul(self.scale, f64_from_i32(i)), self.offset)

\* f64::round with ties to the even integer instead of away from zero
f64_round_ties_even(a) ==
    IF ~IsFin(a) \/ IsWhole(a) THEN a
    ELSE LET w == WholePart(a)
             c == NCmp(w.frac, w.half)
         IN  IF w.frac # NZero /\ (c > 0 \/ (c = 0 /\ NIsOdd(w.ip)))
             THEN Canon(a.s, NAdd(w.ip, NOne), 0)
             ELSE Canon(a.s, w.ip, 0)

round_ties_even(x, r) ==
    CASE r = "Round" -> f64_round_ties_even(x)
      [] r = "Ceil" -> f64_ceil(x)
      [] r = "Floor" -> f64_floor(x)

\* fn round(n: f64, r: RoundingMode) -> f64, local to
\* inverse_with_rounding_mode
round(x, r) ==
    CASE r = "Round" -> f64_round(x)
      [] r = "Ceil" -> f64_ceil(x)
      [] r = "Floor" -> f64_floor(x)

inverse_with_rounding_mode_open_range(self, x, r) ==
    LET v == round(f64_div(f64_sub(x, self.offset), self.scale), r)
    IN  IF ~f64_lt(v, f64_from_i32(I32Max)) \/ ~f64_gt(v, f64_from_i32(I32Min))
        THEN [tag |-> "InvalidInverseTransform", n |-> v, transform |-> self]
        ELSE [tag |-> "Ok", val |-> as_i32(v)]

\* Transform::inverse_with_rounding_mode
inverse_with_rounding_mode(self, x, r) ==
    LET v == round(f64_div(f64_sub(x, self.offset), self.scale), r)
    IN  IF f64_gt(v, f64_from_i32(I32Max)) \/ f64_lt(v, f64_from_i32(I32Min))
        THEN [tag |-> "InvalidInverseTransform", n |-> v, transform |-> self]
        ELSE [tag |-> "Ok", val |-> as_i32(v)]

\* Transform::inverse
inverse(self, x) == inverse_with_rounding_mode(self, x, "Round")

-----------------------------------------------------------------------------
(* The f64 and i32 values the transform is exercised on.                    *)

\* the f64 a decimal literal num/den denotes: the nearest to the quotient
Lit(num, den) == f64_div(f64_from_i32(num), f64_from_i32(den))
OfInt(i) == f64_from_i32(i)
Pow2(e) == Fin(0, NOne, e)

\* Transform { scale: 2., offset: 1. } of the documentation
ExampleTransform == [scale |-> OfInt(2), offset |-> OfInt(1)]
\* Transform::default()
DefaultTransform == [scale |-> Lit(1, 1000), offset |-> OfInt(0)]
UnitTransform == [scale |-> OfInt(1), offset |-> OfInt(0)]
ZeroScaleTransform == [scale |-> OfInt(0), offset |-> OfInt(1)]
NegativeTransform == [scale |-> Lit(-1, 2), offset |-> Lit(1, 4)]
\* an offset so far above the scale that scale * n is lost in the sum
AbsorbingTransform == [scale |-> Pow2(-30), offset |-> Pow2(40)]
\* a scale the division by which overflows
TinyTransform == [scale |-> Pow2(-1000), offset |-> OfInt(0)]

Transforms ==
    {ExampleTransform, DefaultTransform, UnitTransform, ZeroScaleTransform,
     NegativeTransform, AbsorbingTransform, TinyTransform}

\* i32::MAX as f64 * scale + 1.  and  i32::MIN as f64 * scale - 1.  of the
\* tests too_large and too_small
TooLarge == f64_add(f64_mul(OfInt(I32Max), DefaultTransform.scale), OfInt(1))
TooSmall == f64_sub(f64_mul(OfInt(I32Min), DefaultTransform.scale), OfInt(1))

\* 0.49999999999999994, the largest f64 below one half
BelowHalf == Fin(0, NSub(NShl(NOne, Precision), NOne), 0 - Precision - 1)

Values ==
    {OfInt(0), Zero(1), OfInt(1), Lit(29, 10),
     Lit(1, 2), Lit(-1, 2), Lit(3, 2), Lit(5, 2), Lit(-5, 2), BelowHalf,
     Lit(1, 4), Lit(-3, 4),
     OfInt(I32Max), f64_add(OfInt(I32Max), Lit(1, 4)),
     f64_add(OfInt(I32Max), Lit(1, 2)), f64_add(OfInt(I32Max), OfInt(1)),
     f64_sub(OfInt(I32Max), Lit(1, 2)),
     OfInt(I32Min), f64_sub(OfInt(I32Min), Lit(1, 4)),
     f64_sub(OfInt(I32Min), Lit(1, 2)), f64_sub(OfInt(I32Min), OfInt(1)),
     TooLarge, TooSmall, Pow2(100)}

I32s == {0, 1, -1, 3, 1000, 123456789, I32Max, I32Min}

-----------------------------------------------------------------------------
(* The transform's state machine: a caller holding one Transform and one    *)
(* f64, which is an input or what direct returned.                          *)

\* the entry points of the inverse: inverse itself, and
\* inverse_with_rounding_mode under each mode
Entries == {"inverse"} \cup RoundingMode

NoResults == [e \in Entries |-> NoCall]

\* the codec is not touched by the transform
IdleCodec ==
    /\ buf = << >>
    /\ text = NoCall
    /\ before = NoCall
    /\ encRes = NoCall
    /\ strictRes = NoCall
    /\ lossyRes = NoCall

TransformInit ==
    /\ transform \in Transforms
    /\ n = None
    /\ value \in Values
    /\ results = NoResults
    /\ IdleCodec

\* value = transform.direct(i)
Direct ==
    \E i \in I32s :
        /\ n' = Some(i)
        /\ value' = direct(transform, i)
        /\ results' = NoResults
        /\ UNCHANGED transform
        /\ UNCHANGED codecVars

\* transform.inverse(value)
Inverse ==
    /\ results' = [results EXCEPT !["inverse"] = inverse(transform, value)]
    /\ UNCHANGED <<transform, n, value>>
    /\ UNCHANGED codecVars

\* transform.inverse_with_rounding_mode(value, r)
InverseWithRoundingMode ==
    \E r \in RoundingMode :
        /\ results' = [results EXCEPT
                          ![r] = inverse_with_rounding_mode(transform, value, r)]
        /\ UNCHANGED <<transform, n, value>>
        /\ UNCHANGED codecVars

TransformNext == Direct \/ Inverse \/ InverseWithRoundingMode

TransformSpec == TransformInit /\ [][TransformNext]_vars

-----------------------------------------------------------------------------
(* The vocabulary of the transform's properties.  Integers and bounds are   *)
(* compared with f64 values exactly, as real numbers.                       *)

Called(e) == results[e] # NoCall
IsOk(e) == results[e].tag = "Ok"
IsErr(e) == results[e].tag = "InvalidInverseTransform"

\* (value - offset) / scale, as f64 arithmetic gives it
Quotient == f64_div(f64_sub(value, transform.offset), transform.scale)

Half == Lit(1, 2)
One == OfInt(1)
DAbs(a) == Fin(0, a.m, a.e)

\* x is a number of [-2147483648, 2147483647]
InI32Range(x) ==
    /\ IsFin(x)
    /\ DCmp(x, OfInt(I32Min)) >= 0
    /\ DCmp(x, OfInt(I32Max)) <= 0

\* the value raw of C7
Raw == f64_round(Quotient)

\* C7: inverse(v) fails, with InvalidInverseTransform carrying
\* raw = round((v - offset) / scale) and the transform, exactly when raw
\* lies outside [-2147483648, 2147483647], and returns Ok of the integer
\* equal to raw otherwise.
C7_InverseRange ==
    Called("inverse") =>
        IF InI32Range(Raw)
        THEN /\ IsOk("inverse")
             /\ DCmp(OfInt(results["inverse"].val), Raw) = 0
        ELSE results["inverse"] =
                 [tag |-> "InvalidInverseTransform", n |-> Raw,
                  transform |-> transform]

\* C8: with a zero scale every call of inverse and of
\* inverse_with_rounding_mode fails with InvalidInverseTransform.
C8_ZeroScaleFails ==
    IsZero(transform.scale) =>
        \A e \in Entries : Called(e) => IsErr(e)

\* value is direct(n) for a transform with a non-zero scale
AfterDirect == n # None /\ ~IsZero(transform.scale)

\* direct(i) was computed without rounding: scale * i and scale * i + offset
\* are both f64 values
DirectExact(self, i) ==
    /\ IsFin(self.scale)
    /\ IsFin(self.offset)
    /\ Representable(DMul(self.scale, OfInt(i)))
    /\ Representable(DAdd(DMul(self.scale, OfInt(i)), self.offset))

\* C9 as claimed: for a non-zero scale, inverse(direct(n)) is Ok(n), and so
\* is inverse_with_rounding_mode under Ceil and Floor.
C9_Reversible ==
    AfterDirect =>
        \A e \in {"inverse", "Ceil", "Floor"} :
            Called(e) => results[e] = [tag |-> "Ok", val |-> n[1]]

\* C9 as amended: the same, for every entry point, when direct(n) was
\* computed without rounding.
C9_ReversibleWhenExact ==
    (AfterDirect /\ DirectExact(transform, n[1])) =>
        \A e \in Entries :
            Called(e) => results[e] = [tag |-> "Ok", val |-> n[1]]

\* i32::MAX went through a transform that is not the identity and came
\* back through every entry point
C9_Witness ==
    /\ AfterDirect
    /\ DirectExact(transform, n[1])
    /\ n[1] = I32Max
    /\ value # OfInt(n[1])
    /\ \A e \in Entries : results[e] = [tag |-> "Ok", val |-> I32Max]

\* c is the least integer >= q; f is the greatest integer <= q; r is the
\* integer nearest to q, the one farther from zero when two are
IsCeilOf(c, q) ==
    /\ DCmp(OfInt(c), q) >= 0
    /\ DCmp(DSub(OfInt(c), One), q) < 0
IsFloorOf(f, q) ==
    /\ DCmp(OfInt(f), q) <= 0
    /\ DCmp(DAdd(OfInt(f), One), q) > 0
IsRoundOf(r, q) ==
    LET d == DAbs(DSub(OfInt(r), q))
    IN  \/ DCmp(d, Half) < 0
        \/ DCmp(d, Half) = 0 /\ DCmp(DAbs(OfInt(r)), DAbs(q)) > 0

\* the quotients whose ceiling, floor, nearest integer is an i32
CeilInRange(q) ==
    /\ IsFin(q)
    /\ DCmp(q, DSub(OfInt(I32Min), One)) > 0
    /\ DCmp(q, OfInt(I32Max)) <= 0
FloorInRange(q) ==
    /\ IsFin(q)
    /\ DCmp(q, OfInt(I32Min)) >= 0
    /\ DCmp(q, DAdd(OfInt(I32Max), One)) < 0
RoundInRange(q) ==
    /\ IsFin(q)
    /\ DCmp(q, DSub(OfInt(I32Min), Half)) > 0
    /\ DCmp(q, DAdd(OfInt(I32Max), Half)) < 0

=============================================================================
